---------------------------- MODULE Spec2Model ----------------------------
(***************************************************************************)
(* A model of described_routes.py: the ResourceTemplate node, the          *)
(* ResourceTemplates collection and their operations, over an explicit     *)
(* heap of Python objects so that object identity, aliasing and in-place   *)
(* mutation are visible.                                                   *)
(*                                                                         *)
(* Python values:                                                          *)
(*   str            a sequence of atoms (an atom is an indivisible piece   *)
(*                  of text; "{u}" is the placeholder of variable u), so   *)
(*                  '' is << >> and + is \o                                *)
(*   None / a str   None, or Some(s)                                       *)
(*   list, dict, ResourceTemplate, ResourceTemplates                       *)
(*                  objects of the heap, named by their index              *)
(***************************************************************************)
EXTENDS Naturals, Sequences, FiniteSets, TLC

VARIABLES heap, root, initial, result, calls

vars == <<heap, root, initial, result, calls>>

(* Bound on the number of heap-changing calls in one behaviour. *)
MaxCalls == 1

(* Bound on that number where the calls are all of all_by_name, which must *)
(* be made twice for one call to be handed the result of another.          *)
MaxIndexCalls == 2

-----------------------------------------------------------------------------
(* Python values *)

None == [none |-> TRUE]

Some(s) == [str |-> s]

(* bool(x) of None or a str: lines 62, 91, 93, 106, 120, 143, 185 *)
Truthy(o) == o /= None /\ o.str /= << >>

Range(s) == {s[i] : i \in 1..Len(s)}

(* [x for x in s if x not in keys] *)
RECURSIVE FilterNotIn(_, _)
FilterNotIn(s, keys) ==
    IF s = << >> THEN << >>
    ELSE IF Head(s) \in keys THEN FilterNotIn(Tail(s), keys)
         ELSE <<Head(s)>> \o FilterNotIn(Tail(s), keys)

-----------------------------------------------------------------------------
(* The heap *)

EmptyHeap == [nodes |-> << >>, lists |-> << >>, colls |-> << >>, dicts |-> << >>]

(* a new list object *)
AllocList(h, v) ==
    [h |-> [h EXCEPT !.lists = Append(@, v)], id |-> Len(h.lists) + 1]

StrAttrs == {"name", "rel", "uri_template", "path_template"}

ListAttrs == {"params", "optional_params", "options"}

(* d.get(attr) *)
Get(d, attr) == IF attr \in DOMAIN d THEN d[attr] ELSE None

(* an element of the collection handed to ResourceTemplates(...) *)
NodeItem(n) == [node |-> n]

DictItem(d) == [dict |-> d]

IsNodeItem(it) == DOMAIN it = {"node"}

(* d.get(attr, []): the list of d, or a new empty list *)
GetList(h, d, attr) ==
    IF attr \in DOMAIN d THEN [h |-> h, id |-> d[attr]] ELSE AllocList(h, << >>)

RECURSIVE NewResourceTemplate(_, _), AppendItems(_, _, _)

(* ResourceTemplates.__init__ : the loop over the collection *)
AppendItems(h, items, acc) ==
    IF items = << >> THEN [h |-> h, members |-> acc]
    ELSE LET it == Head(items) IN
         IF IsNodeItem(it)
         THEN AppendItems(h, Tail(items), Append(acc, it.node))
         ELSE LET r == NewResourceTemplate(h, it.dict)
              IN  AppendItems(r.h, Tail(items), Append(acc, r.id))

(* ResourceTemplates(collection): a new collection object *)
NewResourceTemplates(h, items) ==
    LET r == AppendItems(h, items, << >>)
    IN  [h |-> [r.h EXCEPT !.colls = Append(@, r.members)],
         id |-> Len(r.h.colls) + 1]

(* ResourceTemplate(d), or with keyword arguments: a new node object *)
NewResourceTemplate(h, d) ==
    LET p  == GetList(h, d, "params")
        o  == GetList(p.h, d, "optional_params")
        op == GetList(o.h, d, "options")
        c  == NewResourceTemplates(op.h,
                  IF "resource_templates" \in DOMAIN d
                  THEN d["resource_templates"] ELSE << >>)
        n  == [name               |-> Get(d, "name"),
               rel                |-> Get(d, "rel"),
               uri_template       |-> Get(d, "uri_template"),
               path_template      |-> Get(d, "path_template"),
               params             |-> p.id,
               optional_params    |-> o.id,
               options            |-> op.id,
               resource_templates |-> c.id]
    IN  [h |-> [c.h EXCEPT !.nodes = Append(@, n)], id |-> Len(c.h.nodes) + 1]

-----------------------------------------------------------------------------
(* Literal data, as in lines 238-293: a nested structure whose lists are   *)
(* written out.  Evaluating the literal creates its list objects.          *)

RECURSIVE EvalLiteral(_, _), EvalLiterals(_, _, _)

EvalLiteral(h, lit) ==
    LET p  == AllocList(h, lit.params)
        o  == AllocList(p.h, lit.optional_params)
        op == AllocList(o.h, lit.options)
        k  == EvalLiterals(op.h, lit.resource_templates, << >>)
    IN  [h |-> k.h,
         d |-> [name               |-> lit.name,
                rel                |-> lit.rel,
                uri_template       |-> lit.uri_template,
                path_template      |-> lit.path_template,
                params             |-> p.id,
                optional_params    |-> o.id,
                options            |-> op.id,
                resource_templates |-> k.items]]

EvalLiterals(h, lits, acc) ==
    IF lits = << >> THEN [h |-> h, items |-> acc]
    ELSE LET r == EvalLiteral(h, Head(lits))
         IN  EvalLiterals(r.h, Tail(lits), Append(acc, DictItem(r.d)))

(* resource_templates = ResourceTemplates(data), line 294 *)
Load(data) ==
    LET lits == EvalLiterals(EmptyHeap, data, << >>)
    IN  NewResourceTemplates(lits.h, lits.items)

-----------------------------------------------------------------------------
(* The address-template expander, uri_template.sub (imported, line 1): a    *)
(* placeholder whose variable has a value is replaced by the value; any    *)
(* other placeholder is kept by a partial expansion and dropped by a full  *)
(* one.                                                                    *)

ParamNames == {"u", "a", "f"}

VarAtom(n) == "{" \o n \o "}"

IsVar(atom) == \E n \in ParamNames : VarAtom(n) = atom

VarName(atom) == CHOOSE n \in ParamNames : VarAtom(n) = atom

RECURSIVE Sub(_, _, _)
Sub(t, actual_params, partial) ==
    IF t = << >> THEN << >>
    ELSE LET c == Head(t)
             e == IF ~IsVar(c) THEN <<c>>
                  ELSE IF VarName(c) \in DOMAIN actual_params
                       THEN actual_params[VarName(c)]
                       ELSE IF partial THEN <<c>> ELSE << >>
         IN  e \o Sub(Tail(t), actual_params, partial)

-----------------------------------------------------------------------------
(* ResourceTemplate.partial_expand and ResourceTemplates.partial_expand *)

(* lines 139-143 *)
partial_expand_uri_template(ut, actual_params) ==
    IF Truthy(ut) THEN Some(Sub(ut.str, actual_params, TRUE)) ELSE None

NodeItems(members) == [i \in 1..Len(members) |-> NodeItem(members[i])]

RECURSIVE partial_expand(_, _, _), ExpandMembers(_, _, _, _)

(* [rt.partial_expand(actual_params) for rt in self], line 232 *)
ExpandMembers(h, members, actual_params, acc) ==
    IF members = << >> THEN [h |-> h, ids |-> acc]
    ELSE LET r == partial_expand(h, Head(members), actual_params)
         IN  ExpandMembers(r.h, Tail(members), actual_params, Append(acc, r.id))

(* ResourceTemplates.partial_expand, lines 227-232 *)
partial_expand_all(h, c, actual_params) ==
    LET r == ExpandMembers(h, h.colls[c], actual_params, << >>)
    IN  NewResourceTemplates(r.h, NodeItems(r.ids))

(* partial_expand handing the children over as they are *)
partial_expand_shallow(h, n, actual_params) ==
    LET self == h.nodes[n]
        p == AllocList(h, FilterNotIn(h.lists[self.params], DOMAIN actual_params))
        o == AllocList(p.h, FilterNotIn(p.h.lists[self.optional_params],
                                        DOMAIN actual_params))
    IN  NewResourceTemplate(o.h,
            [name               |-> self.name,
             rel                |-> self.rel,
             uri_template       |-> partial_expand_uri_template(self.uri_template,
                                                                actual_params),
             path_template      |-> partial_expand_uri_template(self.path_template,
                                                                actual_params),
             params             |-> p.id,
             optional_params    |-> o.id,
             options            |-> self.options,
             resource_templates |-> NodeItems(o.h.colls[self.resource_templates])])

(* partial_expand removing the names from its own lists, in place *)
partial_expand_in_place(h, n, actual_params) ==
    LET self == h.nodes[n]
        h1 == [h EXCEPT !.lists[self.params] = FilterNotIn(@, DOMAIN actual_params),
                        !.lists[self.optional_params] =
                            FilterNotIn(@, DOMAIN actual_params)]
        p == AllocList(h1, h1.lists[self.params])
        o == AllocList(p.h, p.h.lists[self.optional_params])
        k == partial_expand_all(o.h, self.resource_templates, actual_params)
    IN  NewResourceTemplate(k.h,
            [name               |-> self.name,
             rel                |-> self.rel,
             uri_template       |-> partial_expand_uri_template(self.uri_template,
                                                                actual_params),
             path_template      |-> partial_expand_uri_template(self.path_template,
                                                                actual_params),
             params             |-> p.id,
             optional_params    |-> o.id,
             options            |-> self.options,
             resource_templates |-> NodeItems(k.h.colls[k.id])])

(* ResourceTemplate.partial_expand, lines 125-137 *)
partial_expand(h, n, actual_params) ==
    LET self == h.nodes[n]
        p == AllocList(h, FilterNotIn(h.lists[self.params], DOMAIN actual_params))
        o == AllocList(p.h, FilterNotIn(p.h.lists[self.optional_params],
                                        DOMAIN actual_params))
        k == partial_expand_all(o.h, self.resource_templates, actual_params)
    IN  NewResourceTemplate(k.h,
            [name               |-> self.name,
             rel                |-> self.rel,
             uri_template       |-> partial_expand_uri_template(self.uri_template,
                                                                actual_params),
             path_template      |-> partial_expand_uri_template(self.path_template,
                                                                actual_params),
             params             |-> p.id,
             optional_params    |-> o.id,
             options            |-> self.options,
             resource_templates |-> NodeItems(k.h.colls[k.id])])

-----------------------------------------------------------------------------
(* Serialization: to_dict and to_list *)

RECURSIVE to_dict(_, _)

(* ResourceTemplates.to_list, lines 171-175 *)
to_list(h, c) ==
    [i \in 1..Len(h.colls[c]) |-> DictItem(to_dict(h, h.colls[c][i]))]

(* to_dict leaving out only the fields that are None *)
to_dict_not_none(h, n) ==
    LET self == h.nodes[n]
        keys == {a \in StrAttrs : self[a] /= None} \cup ListAttrs
                \cup (IF h.colls[self.resource_templates] /= << >>
                      THEN {"resource_templates"} ELSE {})
    IN  [a \in keys |->
            IF a = "resource_templates" THEN to_list(h, self.resource_templates)
            ELSE self[a]]

(* ResourceTemplate.to_dict, lines 54-66: only the truthy fields are kept *)
to_dict(h, n) ==
    LET self == h.nodes[n]
        keys == {a \in StrAttrs : Truthy(self[a])}
                \cup {a \in ListAttrs : h.lists[self[a]] /= << >>}
                \cup (IF h.colls[self.resource_templates] /= << >>
                      THEN {"resource_templates"} ELSE {})
    IN  [a \in keys |->
            IF a = "resource_templates" THEN to_list(h, self.resource_templates)
            ELSE self[a]]

-----------------------------------------------------------------------------
(* Queries *)

RECURSIVE SelectRel(_, _, _)
SelectRel(h, members, rel) ==
    IF members = << >> THEN << >>
    ELSE IF h.nodes[Head(members)].rel = rel
         THEN <<Head(members)>> \o SelectRel(h, Tail(members), rel)
         ELSE SelectRel(h, Tail(members), rel)

RECURSIVE Descendants(_, _)
Descendants(h, members) ==
    IF members = << >> THEN << >>
    ELSE <<Head(members)>>
             \o Descendants(h, h.colls[h.nodes[Head(members)].resource_templates])
             \o Descendants(h, Tail(members))

(* find_by_rel searching the whole subtree *)
find_by_rel_deep(h, n, rel) ==
    SelectRel(h, Descendants(h, h.colls[h.nodes[n].resource_templates]), rel)

(* ResourceTemplate.find_by_rel, lines 145-149 *)
find_by_rel(h, n, rel) ==
    SelectRel(h, h.colls[h.nodes[n].resource_templates], rel)

NoParent == 0

(* positional_params removing the parent's optional_params as well *)
positional_params_optional_too(h, n, parent) ==
    LET self == h.nodes[n]
        all_params == h.lists[self.params] \o h.lists[self.optional_params]
    IN  IF parent /= NoParent
        THEN FilterNotIn(all_params,
                         Range(h.lists[h.nodes[parent].params])
                             \cup Range(h.lists[h.nodes[parent].optional_params]))
        ELSE all_params

(* ResourceTemplate.positional_params, lines 75-84; an object is truthy *)
positional_params(h, n, parent) ==
    LET self == h.nodes[n]
        all_params == h.lists[self.params] \o h.lists[self.optional_params]
    IN  IF parent /= NoParent
        THEN FilterNotIn(all_params, Range(h.lists[h.nodes[parent].params]))
        ELSE all_params

(* uri_template_for_base testing for None where the code tests for truth *)
uri_template_for_base_not_none(self, base) ==
    IF self.uri_template /= None THEN self.uri_template
    ELSE IF base /= None /\ self.path_template /= None
         THEN Some(base.str \o self.path_template.str)
         ELSE None

(* ResourceTemplate.uri_template_for_base, lines 87-94 *)
uri_template_for_base(self, base) ==
    IF Truthy(self.uri_template) THEN self.uri_template
    ELSE IF Truthy(base) /\ Truthy(self.path_template)
         THEN Some(base.str \o self.path_template.str)
         ELSE None

(* ', '.join(names) *)
RECURSIVE Join(_)
Join(names) ==
    IF names = << >> THEN << >>
    ELSE IF Len(names) = 1 THEN <<Head(names)>>
         ELSE <<Head(names), ", ">> \o Join(Tail(names))

Raise(exception, args) == [raises |-> exception, args |-> args]

Return(template, value) == [raises |-> "nothing", template |-> template, value |-> value]

(* KeyError('missing params ' + ', '.join(missing_params)), lines 103, 118 *)
MissingParams(missing_params) ==
    Raise("KeyError", <<"missing params ">> \o Join(missing_params))

(* uri_for looking for its template before it looks at the parameters *)
uri_for_template_first(h, n, actual_params, base) ==
    LET self == h.nodes[n]
        missing_params == FilterNotIn(h.lists[self.params], DOMAIN actual_params)
        t == uri_template_for_base(self, base)
    IN  IF ~Truthy(t) THEN Raise("RuntimeError", << >>)
        ELSE IF missing_params /= << >> THEN MissingParams(missing_params)
        ELSE Return(t.str, Sub(t.str, actual_params, FALSE))

(* ResourceTemplate.uri_for, lines 96-109 *)
uri_for(h, n, actual_params, base) ==
    LET self == h.nodes[n]
        missing_params == FilterNotIn(h.lists[self.params], DOMAIN actual_params)
        t == uri_template_for_base(self, base)
    IN  IF missing_params /= << >> THEN MissingParams(missing_params)
        ELSE IF ~Truthy(t) THEN Raise("RuntimeError", << >>)
        ELSE Return(t.str, Sub(t.str, actual_params, FALSE))

(* ResourceTemplate.path_for, lines 111-123: line 123 reads the name        *)
(* path_template, which is neither a local nor a global of the module, so  *)
(* evaluating the call's arguments raises NameError.                       *)
path_for(h, n, actual_params) ==
    LET self == h.nodes[n]
        missing_params == FilterNotIn(h.lists[self.params], DOMAIN actual_params)
    IN  IF missing_params /= << >> THEN MissingParams(missing_params)
        ELSE IF ~Truthy(self.path_template) THEN Raise("RuntimeError", << >>)
        ELSE Raise("NameError", <<"path_template">>)

-----------------------------------------------------------------------------
(* The name index: ResourceTemplates.all_by_name, lines 177-189 *)

EmptyDict == [k \in {} |-> 0]

AllocDict(h, v) ==
    [h |-> [h EXCEPT !.dicts = Append(@, v)], id |-> Len(h.dicts) + 1]

(* d[key] = value *)
SetItem(f, key, value) ==
    [k \in DOMAIN f \cup {key} |-> IF k = key THEN value ELSE f[k]]

NoDict == 0

RECURSIVE IndexMembers(_, _, _)

(* the loop entering a node's name after its children's *)
IndexMembersChildrenFirst(h, members, d) ==
    IF members = << >> THEN h
    ELSE LET rt == Head(members)
             h1 == IndexMembers(h, h.colls[h.nodes[rt].resource_templates], d)
             h2 == IF Truthy(h1.nodes[rt].name)
                   THEN [h1 EXCEPT !.dicts[d] = SetItem(@, h1.nodes[rt].name.str, rt)]
                   ELSE h1
         IN  IndexMembers(h2, Tail(members), d)

(* the loop of lines 184-187, over the members still to visit *)
IndexMembers(h, members, d) ==
    IF members = << >> THEN h
    ELSE LET rt == Head(members)
             h1 == IF Truthy(h.nodes[rt].name)
                   THEN [h EXCEPT !.dicts[d] = SetItem(@, h.nodes[rt].name.str, rt)]
                   ELSE h
             h2 == IndexMembers(h1, h1.colls[h1.nodes[rt].resource_templates], d)
         IN  IndexMembers(h2, Tail(members), d)

(* lines 181-182: a call without d gets a dict of its own *)
DefaultDict(h, d) == IF d = NoDict THEN AllocDict(h, EmptyDict) ELSE [h |-> h, id |-> d]

all_by_name(h, c, d) ==
    LET a == DefaultDict(h, d)
    IN  [h |-> IndexMembers(a.h, a.h.colls[c], a.id), id |-> a.id]

-----------------------------------------------------------------------------
(* The trees the model starts from: every combination of a profile of      *)
(* names and relations, a profile of parameter lists and a profile of      *)
(* templates over the shape of the module's own test data (lines 238-293): *)
(*     [ A [ B [ C ], D ], E ]                                             *)
(* and the empty collection.                                               *)

Positions == {"A", "B", "C", "D", "E"}

S(a) == Some(<<a>>)

Empty == Some(<< >>)

Names1 ==
    [A |-> <<S("a"), S("edit")>>, B |-> <<S("b"), S("edit")>>,
     C |-> <<S("c"), S("edit")>>, D |-> <<S("d"), S("edit")>>,
     E |-> <<S("e"), None>>]

Names2 ==
    [A |-> <<S("a"), S("edit")>>, B |-> <<S("a"), S("edit")>>,
     C |-> <<None, S("list")>>,   D |-> <<Empty, S("list")>>,
     E |-> <<S("b"), Empty>>]

Names3 ==
    [A |-> <<S("a"), None>>,      B |-> <<S("b"), Empty>>,
     C |-> <<S("b"), None>>,      D |-> <<S("b"), None>>,
     E |-> <<S("a"), S("edit")>>]

NameProfiles == {Names1, Names2, Names3}

Params1 ==
    [A |-> << << >>, <<"f">> >>,          B |-> << <<"u">>, <<"f">> >>,
     C |-> << <<"u", "a">>, <<"f">> >>,   D |-> << <<"u">>, <<"f">> >>,
     E |-> << << >>, << >> >>]

Params2 ==
    [A |-> << <<"u", "a">>, <<"f">> >>,   B |-> << <<"a", "u">>, << >> >>,
     C |-> << <<"a">>, <<"u", "f">> >>,   D |-> << << >>, <<"u">> >>,
     E |-> << <<"f">>, <<"a">> >>]

Params3 ==
    [A |-> << << >>, << >> >>,            B |-> << <<"u">>, << >> >>,
     C |-> << << >>, <<"f">> >>,          D |-> << <<"u", "a", "u">>, <<"f", "f">> >>,
     E |-> << <<"a">>, << >> >>]

ParamProfiles == {Params1, Params2, Params3}

T1 == Some(<<"http://h/", "{u}", "{f}">>)

T2 == Some(<<"http://h/", "{u}", "/", "{a}", "{f}">>)

P1 == Some(<<"/p/", "{u}">>)

P2 == Some(<<"/path">>)

Templates1 ==
    [A |-> <<T1, None>>,  B |-> <<T1, None>>,  C |-> <<T2, None>>,
     D |-> <<T1, None>>,  E |-> <<None, P2>>]

Templates2 ==
    [A |-> <<None, None>>,  B |-> <<Empty, P1>>, C |-> <<T2, P2>>,
     D |-> <<None, Empty>>, E |-> <<Empty, Empty>>]

Templates3 ==
    [A |-> <<T2, P1>>,    B |-> <<None, P1>>,  C |-> <<Empty, None>>,
     D |-> <<T1, Empty>>, E |-> <<None, None>>]

TemplateProfiles == {Templates1, Templates2, Templates3}

Options ==
    [A |-> <<"GET", "POST">>, B |-> <<"GET">>, C |-> << >>,
     D |-> <<"GET", "PUT", "DELETE">>, E |-> << >>]

Literal(np, pp, tp, pos, kids) ==
    [name               |-> np[pos][1],
     rel                |-> np[pos][2],
     uri_template       |-> tp[pos][1],
     path_template      |-> tp[pos][2],
     params             |-> pp[pos][1],
     optional_params    |-> pp[pos][2],
     options            |-> Options[pos],
     resource_templates |-> kids]

Data(np, pp, tp) ==
    << Literal(np, pp, tp, "A",
           << Literal(np, pp, tp, "B", << Literal(np, pp, tp, "C", << >>) >>),
              Literal(np, pp, tp, "D", << >>) >>),
       Literal(np, pp, tp, "E", << >>) >>

(* a smaller shape, [ A [ B ] ], for the behaviours that mix every operation *)
SmallData(np, pp, tp) ==
    << Literal(np, pp, tp, "A", << Literal(np, pp, tp, "B", << >>) >>) >>

InitialSmallData ==
    { SmallData(Names1, Params1, Templates2),
      SmallData(Names2, Params2, Templates3),
      SmallData(Names3, Params3, Templates1) }

InitialData ==
    { Data(np, pp, tp) : np \in NameProfiles, pp \in ParamProfiles,
                         tp \in TemplateProfiles } \cup { << >> }

(* the values a caller supplies for the parameters *)
ActualParams ==
    { << >>,
      [n \in {"u"} |-> <<"dojo">>],
      [n \in {"u", "f"} |-> IF n = "u" THEN <<"dojo">> ELSE <<".json">>],
      [n \in {"a"} |-> << >>] }

-----------------------------------------------------------------------------
(* State *)

NoResult == [op |-> "none"]

Start(data) ==
    LET r == Load(data) IN
    /\ heap = r.h
    /\ root = r.id
    /\ initial = r.h
    /\ result = NoResult
    /\ calls = 0

Init == \E data \in InitialData : Start(data)

InitSmall == \E data \in InitialSmallData : Start(data)

Nodes == 1..Len(heap.nodes)

Colls == 1..Len(heap.colls)

(* rt.partial_expand(actual_params) on any node *)
PartialExpand ==
    /\ calls < MaxCalls
    /\ \E n \in Nodes, ap \in ActualParams :
           \E r \in {partial_expand(heap, n, ap)} :
           /\ heap' = r.h
           /\ result' = [op |-> "partial_expand", self |-> n,
                         actual_params |-> ap, ret |-> r.id]
    /\ calls' = calls + 1
    /\ UNCHANGED <<root, initial>>

(* rts.partial_expand(actual_params) on any collection *)
PartialExpandAll ==
    /\ calls < MaxCalls
    /\ \E c \in Colls, ap \in ActualParams :
           \E r \in {partial_expand_all(heap, c, ap)} :
           /\ heap' = r.h
           /\ result' = [op |-> "partial_expand_all", self |-> c,
                         actual_params |-> ap, ret |-> r.id]
    /\ calls' = calls + 1
    /\ UNCHANGED <<root, initial>>

(* rt.to_dict() *)
ToDict ==
    /\ \E n \in Nodes :
           result' = [op |-> "to_dict", self |-> n, ret |-> to_dict(heap, n)]
    /\ UNCHANGED <<heap, root, initial, calls>>

(* rts.to_list() *)
ToList ==
    /\ \E c \in Colls :
           result' = [op |-> "to_list", self |-> c, ret |-> to_list(heap, c)]
    /\ UNCHANGED <<heap, root, initial, calls>>

(* ResourceTemplate(rt.to_dict()) *)
FromDict ==
    /\ calls < MaxCalls
    /\ \E n \in Nodes : \E d \in {to_dict(heap, n)} :
           \E r \in {NewResourceTemplate(heap, d)} :
           /\ heap' = r.h
           /\ result' = [op |-> "ResourceTemplate", source |-> n, d |-> d,
                         ret |-> r.id]
    /\ calls' = calls + 1
    /\ UNCHANGED <<root, initial>>

(* ResourceTemplates(rts.to_list()) *)
FromList ==
    /\ calls < MaxCalls
    /\ \E c \in Colls : \E l \in {to_list(heap, c)} :
           \E r \in {NewResourceTemplates(heap, l)} :
           /\ heap' = r.h
           /\ result' = [op |-> "ResourceTemplates", source |-> c,
                         collection |-> l, ret |-> r.id]
    /\ calls' = calls + 1
    /\ UNCHANGED <<root, initial>>

(* the relation labels a caller asks for *)
Rels == {<<"edit">>, <<"list">>, << >>}

(* the base addresses a caller supplies *)
Bases == {None, Empty, S("http://b")}

(* rt.find_by_rel(rel) *)
FindByRel ==
    /\ \E n \in Nodes, rel \in Rels :
           result' = [op |-> "find_by_rel", self |-> n, rel |-> rel,
                      ret |-> find_by_rel(heap, n, Some(rel))]
    /\ UNCHANGED <<heap, root, initial, calls>>

(* rt.positional_params(parent) *)
PositionalParams ==
    /\ \E n \in Nodes, parent \in Nodes \cup {NoParent} :
           result' = [op |-> "positional_params", self |-> n, parent |-> parent,
                      ret |-> positional_params(heap, n, parent)]
    /\ UNCHANGED <<heap, root, initial, calls>>

(* rt.uri_for(actual_params, base) *)
UriFor ==
    /\ \E n \in Nodes, ap \in ActualParams, base \in Bases :
           result' = [op |-> "uri_for", self |-> n, actual_params |-> ap,
                      base |-> base, ret |-> uri_for(heap, n, ap, base)]
    /\ UNCHANGED <<heap, root, initial, calls>>

(* rt.path_for(actual_params) *)
PathFor ==
    /\ \E n \in Nodes, ap \in ActualParams :
           result' = [op |-> "path_for", self |-> n, actual_params |-> ap,
                      ret |-> path_for(heap, n, ap)]
    /\ UNCHANGED <<heap, root, initial, calls>>

(* the accumulators a caller builds itself: {} and one with two entries *)
Accumulators(h) ==
    {EmptyDict} \cup (IF h.nodes = << >> THEN {}
                      ELSE {SetItem(SetItem(EmptyDict, <<"a">>, 1), <<"zz">>, 1)})

(* rts.all_by_name() *)
AllByName ==
    /\ \E c \in Colls :
           \E r \in {all_by_name(heap, c, NoDict)} :
           /\ heap' = r.h
           /\ result' = [op |-> "all_by_name", self |-> c, d |-> NoDict,
                         before |-> heap.dicts, ret |-> r.id]
    /\ calls' = calls + 1
    /\ UNCHANGED <<root, initial>>

(* rts.all_by_name(d), d a dict of the caller's or an earlier result *)
AllByNameInto ==
    /\ \E c \in Colls :
           \/ \E acc \in Accumulators(heap) :
                  \E a \in {AllocDict(heap, acc)} :
                  \E r \in {all_by_name(a.h, c, a.id)} :
                  /\ heap' = r.h
                  /\ result' = [op |-> "all_by_name", self |-> c, d |-> a.id,
                                before |-> a.h.dicts, ret |-> r.id]
           \/ \E d \in 1..Len(heap.dicts) :
                  \E r \in {all_by_name(heap, c, d)} :
                  /\ heap' = r.h
                  /\ result' = [op |-> "all_by_name", self |-> c, d |-> d,
                                before |-> heap.dicts, ret |-> r.id]
    /\ calls' = calls + 1
    /\ UNCHANGED <<root, initial>>

NextExpand ==
    \/ PartialExpand
    \/ PartialExpandAll
    \/ FromDict
    \/ FromList

NextQuery ==
    \/ ToDict
    \/ ToList
    \/ FindByRel
    \/ PositionalParams
    \/ UriFor
    \/ PathFor

NextIndex ==
    \/ calls < MaxIndexCalls /\ AllByName
    \/ calls < MaxIndexCalls /\ AllByNameInto

(* the operations that must leave their receiver as it was *)
NextFrame ==
    \/ PartialExpand
    \/ PartialExpandAll
    \/ ToDict
    \/ ToList
    \/ FindByRel
    \/ PositionalParams
    \/ calls < MaxCalls /\ AllByName
    \/ calls < MaxCalls /\ AllByNameInto

Next ==
    \/ NextExpand
    \/ NextQuery
    \/ NextIndex

(* every operation, from the small trees *)
Spec == InitSmall /\ [][Next]_vars

(* partial expansion and the round trip through to_dict / to_list *)
SpecExpand == Init /\ [][NextExpand]_vars

(* the operations that only read *)
SpecQuery == Init /\ [][NextQuery]_vars

(* the name index *)
SpecIndex == Init /\ [][NextIndex]_vars

(* the operations of the frame property, from the small trees *)
SpecFrame == InitSmall /\ [][NextFrame]_vars

-----------------------------------------------------------------------------
(* What the properties below are stated with *)

Node(n) == heap.nodes[n]

List(l) == heap.lists[l]

Kids(n) == heap.colls[Node(n).resource_templates]

(* s without the members of keys, the rest in order *)
Without(s, keys) == SelectSeq(s, LAMBDA x : x \notin keys)

(* the nodes of a subtree, and of the trees of a collection *)
RECURSIVE NodesUnder(_)
NodesUnder(n) == {n} \cup UNION {NodesUnder(Kids(n)[i]) : i \in 1..Len(Kids(n))}

NodesIn(c) == UNION {NodesUnder(heap.colls[c][i]) : i \in 1..Len(heap.colls[c])}

(* depth-first, a node before its children, siblings in list order *)
RECURSIVE PreOrder(_)
PreOrder(members) ==
    IF members = << >> THEN << >>
    ELSE <<Head(members)>> \o PreOrder(Kids(Head(members))) \o PreOrder(Tail(members))

(* a tree as a value: every field of every node, the lists written out *)
RECURSIVE Value(_)
Value(n) ==
    [name               |-> Node(n).name,
     rel                |-> Node(n).rel,
     uri_template       |-> Node(n).uri_template,
     path_template      |-> Node(n).path_template,
     params             |-> List(Node(n).params),
     optional_params    |-> List(Node(n).optional_params),
     options            |-> List(Node(n).options),
     resource_templates |-> [i \in 1..Len(Kids(n)) |-> Value(Kids(n)[i])]]

Values(c) == [i \in 1..Len(heap.colls[c]) |-> Value(heap.colls[c][i])]

-----------------------------------------------------------------------------
(* C1 *)

RECURSIVE Reduced(_, _, _)
Reduced(n, m, keys) ==
    /\ List(Node(m).params) = Without(List(Node(n).params), keys)
    /\ List(Node(m).optional_params) = Without(List(Node(n).optional_params), keys)
    /\ Len(Kids(m)) = Len(Kids(n))
    /\ \A i \in 1..Len(Kids(n)) : Reduced(Kids(n)[i], Kids(m)[i], keys)

(* C1. Parameter-set reduction: the node partial_expand(p) returns has the *)
(* params of its source without exactly the keys of p, the rest in their   *)
(* order, and likewise the optional_params; so has every descendant at     *)
(* every depth, and every root when a collection is expanded.              *)
C1_ParamReduction ==
    /\ result.op = "partial_expand" =>
           Reduced(result.self, result.ret, DOMAIN result.actual_params)
    /\ result.op = "partial_expand_all" =>
           /\ Len(heap.colls[result.ret]) = Len(heap.colls[result.self])
           /\ \A i \in 1..Len(heap.colls[result.self]) :
                  Reduced(heap.colls[result.self][i], heap.colls[result.ret][i],
                          DOMAIN result.actual_params)

(* a collection was expanded, and a grandchild lost one name and kept one *)
C1_Witness ==
    /\ result.op = "partial_expand_all"
    /\ \E i \in 1..Len(heap.colls[result.self]) :
       \E j \in 1..Len(Kids(heap.colls[result.self][i])) :
       \E k \in 1..Len(Kids(Kids(heap.colls[result.self][i])[j])) :
           LET n == Kids(Kids(heap.colls[result.self][i])[j])[k]
               m == Kids(Kids(heap.colls[result.ret][i])[j])[k]
           IN  /\ Len(List(Node(m).params)) >= 1
               /\ Len(List(Node(m).params)) < Len(List(Node(n).params))
               /\ Len(List(Node(m).optional_params)) < Len(List(Node(n).optional_params))

-----------------------------------------------------------------------------
(* C2 *)

Supplied(ap, n) == \A i \in 1..Len(List(Node(n).params)) :
                       List(Node(n).params)[i] \in DOMAIN ap

(* the names an error message lists *)
NamesIn(args) == SelectSeq(Tail(args), LAMBDA a : a /= ", ")

(* C2. Missing-parameter detection: uri_for and path_for raise KeyError    *)
(* if and only if some name of params is not a key of the mapping; the     *)
(* error names exactly the missing names in the order of params; and the   *)
(* check comes before any check of the templates.                          *)
C2_MissingParams ==
    result.op \in {"uri_for", "path_for"} =>
        /\ result.ret.raises = "KeyError" <=> ~Supplied(result.actual_params, result.self)
        /\ result.ret.raises = "KeyError" =>
               /\ Head(result.ret.args) = "missing params "
               /\ NamesIn(result.ret.args) =
                      Without(List(Node(result.self).params), DOMAIN result.actual_params)

(* two names are missing on a node that has no template to expand *)
C2_Witness ==
    /\ result.op = "uri_for"
    /\ result.ret.raises = "KeyError"
    /\ Len(NamesIn(result.ret.args)) = 2
    /\ Node(result.self).uri_template = None
    /\ Node(result.self).path_template = None

-----------------------------------------------------------------------------
(* C3 *)

(* C3. path_for, called with every name of params, returns the full        *)
(* expansion of the node's own path_template when it is set, and raises    *)
(* RuntimeError when it is absent.                                         *)
C3_PathFor ==
    (result.op = "path_for" /\ Supplied(result.actual_params, result.self)) =>
        IF Truthy(Node(result.self).path_template)
        THEN /\ result.ret.raises = "nothing"
             /\ result.ret.template = Node(result.self).path_template.str
             /\ result.ret.value = Sub(Node(result.self).path_template.str,
                                       result.actual_params, FALSE)
        ELSE result.ret.raises = "RuntimeError"

-----------------------------------------------------------------------------
(* C4 *)

(* a field or argument counts as set: when it is not None (as_written), or *)
(* when it is neither None nor the empty string                            *)
IsSet(o, as_written) == IF as_written THEN o /= None ELSE Truthy(o)

Resolution(as_written) ==
    (result.op = "uri_for" /\ Supplied(result.actual_params, result.self)) =>
        LET self == Node(result.self)
            base == result.base
            uri  == IsSet(self.uri_template, as_written)
            path == IsSet(self.path_template, as_written)
        IN  /\ uri =>
                   /\ result.ret.raises = "nothing"
                   /\ result.ret.template = self.uri_template.str
            /\ (~uri /\ IsSet(base, as_written) /\ path) =>
                   /\ result.ret.raises = "nothing"
                   /\ result.ret.template = base.str \o self.path_template.str
            /\ result.ret.raises = "RuntimeError" <=>
                   (~uri /\ (~IsSet(base, as_written) \/ ~path))
            /\ result.ret.raises \in {"nothing", "RuntimeError"}
            /\ result.ret.raises = "nothing" =>
                   result.ret.value = Sub(result.ret.template, result.actual_params, FALSE)

(* C4 as stated: with every name of params supplied, uri_for expands the   *)
(* uri_template if it is set, else base + path_template if both are set,   *)
(* and raises RuntimeError exactly when the uri_template is absent and one *)
(* of base and path_template is absent.                                    *)
C4_AsStated == Resolution(TRUE)

(* C4. The same with "set" read as present and not the empty string: an    *)
(* empty uri_template, path_template or base counts as absent.             *)
C4_TemplateResolution == Resolution(FALSE)

(* the uri_template is the empty string and base + path_template is used *)
C4_Witness ==
    /\ result.op = "uri_for"
    /\ Supplied(result.actual_params, result.self)
    /\ Node(result.self).uri_template = Empty
    /\ result.ret.raises = "nothing"
    /\ result.ret.template = result.base.str \o Node(result.self).path_template.str

-----------------------------------------------------------------------------
(* C5 *)

(* C5 as stated: the tree built from the serialized structure of T equals  *)
(* T: at every position the same name, rel, uri_template, path_template,   *)
(* params, optional_params, options and the same children in order.        *)
C5_AsStated ==
    /\ result.op = "ResourceTemplate" => Value(result.ret) = Value(result.source)
    /\ result.op = "ResourceTemplates" => Values(result.ret) = Values(result.source)

(* a field that is the empty string comes back absent *)
Stripped(o) == IF o = Empty THEN None ELSE o

RECURSIVE StrippedValue(_)
StrippedValue(v) ==
    [v EXCEPT !.name = Stripped(@), !.rel = Stripped(@),
              !.uri_template = Stripped(@), !.path_template = Stripped(@),
              !.resource_templates = [i \in 1..Len(@) |-> StrippedValue(@[i])]]

(* C5. The tree built from the serialized structure of T equals T at       *)
(* every position in params, optional_params, options and the children     *)
(* and their order, and in name, rel, uri_template and path_template       *)
(* except that a field holding the empty string in T is absent in the      *)
(* rebuilt tree.                                                           *)
C5_RoundTrip ==
    /\ result.op = "ResourceTemplate" =>
           Value(result.ret) = StrippedValue(Value(result.source))
    /\ result.op = "ResourceTemplates" =>
           Values(result.ret) = [i \in 1..Len(heap.colls[result.source]) |->
                                    StrippedValue(Values(result.source)[i])]

(* a whole tree went through to_list and back; to_list left out an empty   *)
(* string, an absent field and an empty list, and kept children            *)
C5_Witness ==
    /\ result.op = "ResourceTemplates"
    /\ result.ret /= result.source
    /\ \E n \in NodesIn(result.source) : Node(n).name = Empty
    /\ \E n \in NodesIn(result.source) : Node(n).path_template = None
    /\ \E n \in NodesIn(result.source) :
           List(Node(n).params) = << >> /\ Kids(n) /= << >>
    /\ \E n \in NodesIn(result.source) : Kids(n) /= << >> /\ Kids(Kids(n)[1]) /= << >>

-----------------------------------------------------------------------------
(* C6 *)

(* C6. The source tree is never mutated: whatever partial_expand, to_dict, *)
(* to_list, all_by_name, find_by_rel and positional_params calls were      *)
(* made, every node, list and collection of the tree built at the start    *)
(* is as it was; and the nodes partial_expand returns are new, none of     *)
(* them a node of its source.                                              *)
C6_SourceNeverMutated ==
    /\ \A n \in 1..Len(initial.nodes) : heap.nodes[n] = initial.nodes[n]
    /\ \A l \in 1..Len(initial.lists) : heap.lists[l] = initial.lists[l]
    /\ \A c \in 1..Len(initial.colls) : heap.colls[c] = initial.colls[c]
    /\ result.op = "partial_expand" =>
           NodesUnder(result.ret) \cap NodesUnder(result.self) = {}
    /\ result.op = "partial_expand_all" =>
           NodesIn(result.ret) \cap NodesIn(result.self) = {}

(* a query made after a partial expansion that removed a name *)
C6_Witness ==
    /\ result.op \in {"find_by_rel", "positional_params", "to_dict", "to_list"}
    /\ Len(heap.nodes) > Len(initial.nodes)
    /\ \E n \in 1..Len(initial.nodes) : \E m \in Len(initial.nodes) + 1..Len(heap.nodes) :
           /\ Node(m).name = Node(n).name
           /\ Len(List(Node(m).params)) < Len(List(Node(n).params))

-----------------------------------------------------------------------------
(* C7 *)

(* the mutable objects of a subtree: its nodes, collections and lists *)
ObjectsOf(ns) ==
    {<<"node", n>> : n \in ns}
        \cup {<<"collection", Node(n).resource_templates>> : n \in ns}
        \cup {<<"list", Node(n).params>> : n \in ns}
        \cup {<<"list", Node(n).optional_params>> : n \in ns}
        \cup {<<"list", Node(n).options>> : n \in ns}

(* C7. No mutable object (node, collection of children, params,            *)
(* optional_params or options list) of the tree partial_expand returns is  *)
(* an object of the tree it was called on.                                 *)
C7_NoSharedMutableState ==
    /\ result.op = "partial_expand" =>
           ObjectsOf(NodesUnder(result.ret)) \cap ObjectsOf(NodesUnder(result.self)) = {}
    /\ result.op = "partial_expand_all" =>
           (ObjectsOf(NodesIn(result.ret)) \cup {<<"collection", result.ret>>})
               \cap (ObjectsOf(NodesIn(result.self)) \cup {<<"collection", result.self>>})
               = {}

-----------------------------------------------------------------------------
(* C8 *)

(* the last node of a sequence of nodes that carries a name *)
LastNamed(seq, name) ==
    seq[CHOOSE i \in 1..Len(seq) :
            /\ Node(seq[i]).name = Some(name)
            /\ \A j \in i + 1..Len(seq) : Node(seq[j]).name /= Some(name)]

(* C8. all_by_name returns a map whose keys are the non-empty names of     *)
(* the nodes of the collection at any depth, and the keys the accumulator  *)
(* had; a name of the collection maps to the last node carrying it in      *)
(* depth-first pre-order, any other key to what it mapped to.  Called      *)
(* without an accumulator it returns a new map and starts from the empty   *)
(* one; called with one it returns that one; no other map changes.         *)
C8_NameIndex ==
    result.op = "all_by_name" =>
        LET visited == PreOrder(heap.colls[result.self])
            names   == {Node(visited[i]).name.str :
                            i \in {j \in 1..Len(visited) : Truthy(Node(visited[j]).name)}}
            start   == IF result.d = NoDict THEN EmptyDict ELSE result.before[result.d]
            index   == heap.dicts[result.ret]
        IN  /\ DOMAIN index = names \cup DOMAIN start
            /\ \A k \in names : index[k] = LastNamed(visited, k)
            /\ \A k \in DOMAIN start \ names : index[k] = start[k]
            /\ IF result.d = NoDict
               THEN result.ret \notin 1..Len(result.before)
               ELSE result.ret = result.d
            /\ \A i \in 1..Len(result.before) :
                   i /= result.ret => heap.dicts[i] = result.before[i]

(* an accumulator with entries was supplied; one entry was kept and one    *)
(* overwritten, by a node that is a descendant of a node of the same name  *)
C8_Witness ==
    /\ result.op = "all_by_name"
    /\ result.d /= NoDict
    /\ \E k \in DOMAIN result.before[result.d] : k \notin DOMAIN EmptyDict
         /\ heap.dicts[result.ret][k] = result.before[result.d][k]
    /\ \E k \in DOMAIN result.before[result.d] :
         /\ heap.dicts[result.ret][k] /= result.before[result.d][k]
         /\ \E n \in NodesIn(result.self) :
                /\ Node(n).name = Some(k)
                /\ heap.dicts[result.ret][k] \in NodesUnder(n) \ {n}

-----------------------------------------------------------------------------
(* C9 *)

(* C9. find_by_rel(rel) returns exactly the direct children whose rel is   *)
(* the label, in child order: never the node itself, a deeper descendant   *)
(* or a child with another or no rel.                                      *)
C9_FindByRel ==
    result.op = "find_by_rel" =>
        /\ result.ret = SelectSeq(Kids(result.self),
                                  LAMBDA t : Node(t).rel = Some(result.rel))
        /\ \A i \in 1..Len(result.ret) :
               /\ result.ret[i] /= result.self
               /\ \E j \in 1..Len(Kids(result.self)) : Kids(result.self)[j] = result.ret[i]
               /\ Node(result.ret[i]).rel /= None
               /\ Node(result.ret[i]).rel.str = result.rel

(* two children are returned in order, and neither the node nor a          *)
(* grandchild, though both carry the label                                 *)
C9_Witness ==
    /\ result.op = "find_by_rel"
    /\ Len(result.ret) = 2
    /\ result.ret = Kids(result.self)
    /\ Node(result.self).rel = Some(result.rel)
    /\ \E g \in NodesUnder(result.ret[1]) \ {result.ret[1]} :
           Node(g).rel = Some(result.rel)

-----------------------------------------------------------------------------
(* C10 *)

(* C10. positional_params(parent) returns params followed by               *)
(* optional_params without exactly the names in parent.params; names only  *)
(* in the parent's optional_params stay, and without a parent all stay.    *)
C10_PositionalParams ==
    result.op = "positional_params" =>
        LET all == List(Node(result.self).params)
                       \o List(Node(result.self).optional_params)
        IN  IF result.parent = NoParent
            THEN result.ret = all
            ELSE result.ret =
                     SelectSeq(all, LAMBDA x :
                         \A i \in 1..Len(List(Node(result.parent).params)) :
                             List(Node(result.parent).params)[i] /= x)

(* a name of the parent's params was removed and a name that is only in    *)
(* the parent's optional_params was kept                                   *)
C10_Witness ==
    /\ result.op = "positional_params"
    /\ result.parent /= NoParent
    /\ Len(result.ret) < Len(List(Node(result.self).params))
                             + Len(List(Node(result.self).optional_params))
    /\ \E i \in 1..Len(result.ret) :
           /\ \E j \in 1..Len(List(Node(result.parent).optional_params)) :
                  List(Node(result.parent).optional_params)[j] = result.ret[i]
           /\ \A j \in 1..Len(List(Node(result.parent).params)) :
                  List(Node(result.parent).params)[j] /= result.ret[i]

=============================================================================
